---- MODULE Spec2Model ----
(***************************************************************************)
(* A model of chatgpt_to_markdown.py: build_conversation_chain (path       *)
(* selection, filtering and text extraction), json_to_markdown (rendering) *)
(* and convert_batch (the per-file loop).                                  *)
(*                                                                         *)
(* Python strings are sequences of tokens; a token is one character or one *)
(* fixed piece of text the code emits ("![image](", "---\n", ...).  The    *)
(* non-ASCII literals of the source are spelled in ASCII here.             *)
(***************************************************************************)
EXTENDS Integers, Sequences, FiniteSets, TLC

VARIABLES
    data,       \* the parsed document handed to build_conversation_chain
    pc,         \* position of the single conversion
    chain,      \* the node identifiers path selection visited, in its order
    messages,   \* the records build_conversation_chain returns
    origin,     \* history: origin[k] is the node messages[k] was built from
    lines,      \* the lines json_to_markdown joins
    dir,        \* convert_batch: the *.json files of the input directory
    json_files, \* convert_batch: sorted(input_path.glob("*.json"))
    idx,        \* convert_batch: number of loop iterations finished
    success,    \* convert_batch: counter
    failed,     \* convert_batch: counter
    out,        \* convert_batch: what lies at each md_path
    printed,    \* convert_batch: the per-file result lines printed so far
    bpc         \* convert_batch: position

vars == <<data, pc, chain, messages, origin, lines,
          dir, json_files, idx, success, failed, out, printed, bpc>>
convVars == <<data, pc, chain, messages, origin, lines>>
batchVars == <<dir, json_files, idx, success, failed, out, printed, bpc>>

-----------------------------------------------------------------------------
(* Bounds of the model. *)

\* longest content.parts list of a message
MaxParts == 2
\* most *.json files in the input directory
MaxFiles == 3

-----------------------------------------------------------------------------
(* Python values. *)

\* Python's None: a JSON null or a missing key read with .get()
None == "None"
\* the empty string, the other falsy value a reference can hold
Empty == ""
\* an identifier that is not a key of any mapping of the model
Ghost == "ghost"

\* bool(x) for a reference (None or a string)
Truthy(x) == x # None /\ x # Empty

\* str.strip() removes these
Whitespace == {" ", "\n", "\t"}

RECURSIVE LStrip(_)
LStrip(s) ==
    IF s # <<>> /\ Head(s) \in Whitespace THEN LStrip(Tail(s)) ELSE s

RECURSIVE RStrip(_)
RStrip(s) ==
    IF s # <<>> /\ s[Len(s)] \in Whitespace
    THEN RStrip(SubSeq(s, 1, Len(s) - 1))
    ELSE s

Strip(s) == RStrip(LStrip(s))

\* sep.join(items) for a sequence of strings
RECURSIVE Join(_, _)
Join(items, sep) ==
    IF items = <<>> THEN <<>>
    ELSE IF Len(items) = 1 THEN items[1]
    ELSE items[1] \o sep \o Join(Tail(items), sep)

RECURSIVE Reversed(_)
Reversed(s) ==
    IF s = <<>> THEN <<>> ELSE Append(Reversed(Tail(s)), Head(s))

-----------------------------------------------------------------------------
(* The document.  data.mapping is [keys, node]: keys is the dict's          *)
(* iteration (insertion) order, node maps each key to                       *)
(* [parent, children, message].  A node's message is <<>> (None) or <<m>>.  *)

Keys(mapping) == {mapping.keys[i] : i \in 1..Len(mapping.keys)}

\* A loop over node identifiers that has appended this many of them without
\* leaving the mapping has appended one of them twice and never ends.
StepCap(mapping) == Len(mapping.keys) + 1

\* line 55
RootIds(mapping) ==
    SelectSeq(mapping.keys, LAMBDA n : mapping.node[n].parent = None)

\* FirstChild taking the last entry of children
FirstChildLast(children) ==
    IF children # <<>> THEN children[Len(children)] ELSE None

\* line 63: children[0] if children else None
FirstChild(children) ==
    IF children # <<>> THEN children[1] ELSE None

\* lines 60-63
RECURSIVE Descend(_, _, _)
Descend(mapping, current, c) ==
    IF ~Truthy(current) THEN [status |-> "ok", chain |-> c]
    ELSE IF Len(c) >= StepCap(mapping) THEN [status |-> "hang", chain |-> c]
    ELSE IF current \notin Keys(mapping)
         THEN [status |-> "KeyError", chain |-> Append(c, current)]
         ELSE Descend(mapping, FirstChild(mapping.node[current].children),
                      Append(c, current))

\* lines 68-70
RECURSIVE Walk(_, _, _)
Walk(mapping, nid, path) ==
    IF ~Truthy(nid) THEN [status |-> "ok", chain |-> path]
    ELSE IF Len(path) >= StepCap(mapping) THEN [status |-> "hang", chain |-> path]
    ELSE IF nid \notin Keys(mapping)
         THEN [status |-> "KeyError", chain |-> Append(path, nid)]
         ELSE Walk(mapping, mapping.node[nid].parent, Append(path, nid))

\* ChainFromPath without reversed()
ChainFromPathUnreversed(path) == path

\* line 71
ChainFromPath(path) == Reversed(path)

\* line 53
UsesFallback(d) ==
    ~Truthy(d.current_node) \/ d.current_node \notin Keys(d.mapping)

\* lines 53-71: path selection.  status is "ok" (chain holds the selected
\* path), "empty" (line 57 returns []), "KeyError" (a mapping[...] lookup of
\* line 62 or 70 raised) or "hang" (the while loop never ends)
SelectPath(d) ==
    IF UsesFallback(d)
    THEN LET root_ids == RootIds(d.mapping)
         IN  IF root_ids = <<>>
             THEN [status |-> "empty", chain |-> <<>>]
             ELSE Descend(d.mapping, root_ids[1], <<>>)
    ELSE LET w == Walk(d.mapping, d.current_node, <<>>)
         IN  IF w.status = "ok"
             THEN [status |-> "ok", chain |-> ChainFromPath(w.chain)]
             ELSE w

-----------------------------------------------------------------------------
(* Messages.  A message is                                                  *)
(*   [hidden, role, content_type, parts, text, model_slug,                  *)
(*    resolved_model_slug, create_time]                                     *)
(* where a sub-object or key that is missing holds the default its .get()   *)
(* supplies: role "", content_type "", parts <<>>, text <<>>.  The slugs    *)
(* are only tested for truth, so a falsy slug (None or "") is <<>>.         *)
(* A part is [t, v, nonempty]: a string (t = "str", v its text), a dict     *)
(* (t = "dict", v its asset_pointer or <<>>, nonempty whether it has any    *)
(* key) or a JSON null (t = "none").                                        *)

PStr(v) == [t |-> "str", v |-> v, nonempty |-> v # <<>>]
PDict(ptr, nonempty) == [t |-> "dict", v |-> ptr, nonempty |-> nonempty]
PNone == [t |-> "none", v |-> <<>>, nonempty |-> FALSE]

\* bool(p) for a part
PartTruthy(p) == p.nonempty

\* str(p) for a truthy part; a dict's repr is spelled with its pointer only
PartStr(p) ==
    IF p.t = "str" THEN p.v ELSE <<"{">> \o p.v \o <<"}">>

\* lines 97 and 125: [str(p) for p in parts if p]
RECURSIVE TruthyPartStrs(_)
TruthyPartStrs(parts) ==
    IF parts = <<>> THEN <<>>
    ELSE (IF PartTruthy(Head(parts)) THEN <<PartStr(Head(parts))>> ELSE <<>>)
         \o TruthyPartStrs(Tail(parts))

\* lines 104-114
RECURSIVE MultimodalParts(_)
MultimodalParts(parts) ==
    IF parts = <<>> THEN <<>>
    ELSE LET p == Head(parts)
         IN  (IF p.t = "str" THEN <<p.v>>
              ELSE IF p.t = "dict"
                   THEN IF p.v # <<>>
                        THEN <<(<<"![image](">> \o p.v \o <<")">>)>>
                        ELSE << <<"[multimodal content]">> >>
                   ELSE <<>>)
             \o MultimodalParts(Tail(parts))

\* lines 116-121: the content types whose branch is `continue`
SkippedTypes == {"user_editable_context", "reasoning_recap"}

\* IsSkippedType without the reasoning_recap branch
IsSkippedTypeNoRecap(content_type) == content_type = "user_editable_context"

\* lines 116 and 119
IsSkippedType(content_type) == content_type \in SkippedTypes

\* lines 94-125, the branches that assign text
ExtractText(m) ==
    IF m.content_type = "text" THEN Join(TruthyPartStrs(m.parts), <<"\n">>)
    ELSE IF m.content_type = "code" THEN m.text
    ELSE IF m.content_type = "execution_output" THEN m.text
    ELSE IF m.content_type = "multimodal_text"
         THEN Join(MultimodalParts(m.parts), <<"\n">>)
    ELSE IF m.parts # <<>> THEN Join(TruthyPartStrs(m.parts), <<"\n">>)
    ELSE <<>>

\* line 87
VisibleRole(role) == role \in {"user", "assistant", "tool"}

\* KeptText without strip()
KeptTextUnstripped(text) == text

\* line 127: the text that decides whether the message is kept
KeptText(text) == Strip(text)

\* line 134: a or b
RecordModel(m) ==
    IF m.model_slug # <<>> THEN m.model_slug ELSE m.resolved_model_slug

\* lines 130-135
Record(m, text) ==
    [role |-> m.role, text |-> Strip(text),
     create_time |-> m.create_time, model |-> RecordModel(m)]

\* lines 76-135: one iteration of the loop over chain; <<>> when the node is
\* skipped, else the record it appends
NodeRecords(mapping, nid) ==
    LET msg == mapping.node[nid].message
    IN  IF msg = <<>> THEN <<>>
        ELSE LET m == msg[1]
             IN  IF m.hidden THEN <<>>
                 ELSE IF ~VisibleRole(m.role) THEN <<>>
                 ELSE IF IsSkippedType(m.content_type) THEN <<>>
                 ELSE IF KeptText(ExtractText(m)) = <<>> THEN <<>>
                 ELSE <<Record(m, ExtractText(m))>>

\* lines 74-137: the records, each with the node it came from
RECURSIVE FilterChain(_, _)
FilterChain(mapping, c) ==
    IF c = <<>> THEN <<>>
    ELSE LET r == NodeRecords(mapping, Head(c))
         IN  (IF r = <<>> THEN <<>> ELSE <<[nid |-> Head(c), rec |-> r[1]]>>)
             \o FilterChain(mapping, Tail(c))

\* lines 44-137 as a function of the document
BuildConversationChain(d) ==
    LET sel == SelectPath(d)
    IN  IF sel.status = "ok"
        THEN [status |-> "ok", chain |-> sel.chain,
              found |-> FilterChain(d.mapping, sel.chain)]
        ELSE [status |-> sel.status, chain |-> sel.chain, found |-> <<>>]

\* the rec fields of a sequence of [nid, rec]
RECURSIVE Recs(_)
Recs(found) ==
    IF found = <<>> THEN <<>> ELSE <<Head(found).rec>> \o Recs(Tail(found))

\* the nid fields of a sequence of [nid, rec]
RECURSIVE Nids(_)
Nids(found) ==
    IF found = <<>> THEN <<>> ELSE <<Head(found).nid>> \o Nids(Tail(found))

-----------------------------------------------------------------------------
(* Rendering.  A timestamp is None or a JSON number, written as its text.   *)

\* datetime.fromtimestamp(ts, tz=CST).strftime(...) for the numbers of the
\* model that are in its range; 1e400 (parsed as inf) is not
FormatCST ==
    [ts \in {"0", "1700000000"} |->
        IF ts = "0" THEN "1970-01-01 08:00:00" ELSE "2023-11-15 06:13:20"]

\* lines 33-41; the result is only tested for truth and formatted, so None
\* is <<>>
ts_to_str(ts) ==
    IF ts = None THEN <<>>
    ELSE IF ts \in DOMAIN FormatCST THEN <<FormatCST[ts]>>
    ELSE <<>>

Digits == <<"0", "1", "2", "3", "4", "5", "6", "7", "8", "9">>

\* str(n) of an f-string, n >= 0
RECURSIVE Decimal(_)
Decimal(n) ==
    IF n < 10 THEN <<Digits[n + 1]>>
    ELSE Decimal(n \div 10) \o <<Digits[(n % 10) + 1]>>

\* lines 26-30 and 177: ROLE_LABELS.get(role, role)
RoleLabel(role) ==
    IF role = "user" THEN "User"
    ELSE IF role = "assistant" THEN "Assistant"
    ELSE IF role = "tool" THEN "Tool"
    ELSE role

\* lines 155, 173, 197
HeadingLine(d) == <<"# ">> \o d.title \o <<"\n">>
Separator == <<"---", "\n">>
CountPrefix == "- **messages**: "

\* line 167: the number the metadata block shows
MessageCount(msgs) == Len(msgs)

\* MetaItems with line 167 indented under the `if conv_id:` of line 165
MetaItemsCountUnderConvId(d, msgs) ==
    (IF ts_to_str(d.create_time) # <<>>
     THEN << <<"- **created**: ">> \o ts_to_str(d.create_time) >> ELSE <<>>)
    \o (IF ts_to_str(d.update_time) # <<>>
        THEN << <<"- **updated**: ">> \o ts_to_str(d.update_time) >> ELSE <<>>)
    \o (IF d.default_model_slug # <<>>
        THEN << <<"- **model**: ">> \o d.default_model_slug >> ELSE <<>>)
    \o (IF d.conversation_id # <<>>
        THEN << <<"- **conversation**: ", "'">> \o d.conversation_id \o <<"'">>,
                <<CountPrefix>> \o Decimal(MessageCount(msgs)) >>
        ELSE <<>>)

\* lines 158-167; the backquotes of line 166 are spelled '
MetaItems(d, msgs) ==
    (IF ts_to_str(d.create_time) # <<>>
     THEN << <<"- **created**: ">> \o ts_to_str(d.create_time) >> ELSE <<>>)
    \o (IF ts_to_str(d.update_time) # <<>>
        THEN << <<"- **updated**: ">> \o ts_to_str(d.update_time) >> ELSE <<>>)
    \o (IF d.default_model_slug # <<>>
        THEN << <<"- **model**: ">> \o d.default_model_slug >> ELSE <<>>)
    \o (IF d.conversation_id # <<>>
        THEN << <<"- **conversation**: ", "'">> \o d.conversation_id \o <<"'">> >>
        ELSE <<>>)
    \o << <<CountPrefix>> \o Decimal(MessageCount(msgs)) >>

\* ShowsModel without the role test
ShowsModelAnyRole(msg) == msg.model # <<>>

\* line 186
ShowsModel(msg) == msg.model # <<>> /\ msg.role = "assistant"

\* lines 183-187
Annotations(msg) ==
    (IF ts_to_str(msg.create_time) # <<>>
     THEN <<ts_to_str(msg.create_time)>> ELSE <<>>)
    \o (IF ShowsModel(msg) THEN <<msg.model>> ELSE <<>>)

\* lines 177-191
HeaderLine(msg) ==
    <<"## ", RoleLabel(msg.role)>>
    \o (IF Annotations(msg) # <<>>
        THEN <<"  <sub>">> \o Join(Annotations(msg), <<" . ">>) \o <<"</sub>">>
        ELSE <<>>)

\* SeparatorFollows after the last message too
SeparatorFollowsAlways(i, n) == i < n

\* line 196, i counted from 0 over n messages
SeparatorFollows(i, n) == i < n - 1

\* lines 176-197
RECURSIVE Sections(_, _)
Sections(msgs, i) ==
    IF i >= Len(msgs) THEN <<>>
    ELSE <<HeaderLine(msgs[i + 1]), <<>>, msgs[i + 1].text, <<>>>>
         \o (IF SeparatorFollows(i, Len(msgs)) THEN <<Separator>> ELSE <<>>)
         \o Sections(msgs, i + 1)

\* lines 154-197: the list json_to_markdown joins with "\n"
RenderLines(d, msgs) ==
    <<HeadingLine(d)>>
    \o (IF MetaItems(d, msgs) # <<>>
        THEN <<Join(MetaItems(d, msgs), <<"\n">>), <<>>>> ELSE <<>>)
    \o <<Separator>>
    \o Sections(msgs, 0)

-----------------------------------------------------------------------------
(* The documents of the model.                                              *)

\* the node identifiers, in the order the mapping holds them
NodeIds == <<"a", "b", "c">>

KeySeq(n) == SubSeq(NodeIds, 1, n)
KeySet(n) == {NodeIds[i] : i \in 1..n}

\* a lone surrogate, which json.load accepts and the utf-8 codec refuses
LoneSurrogate == "\\ud83d"

Timestamps == {None, "0", "1700000000", "1e400"}

Msg(hidden, role, content_type, parts, text, model_slug, resolved, ctime) ==
    [hidden |-> hidden, role |-> role, content_type |-> content_type,
     parts |-> parts, text |-> text, model_slug |-> model_slug,
     resolved_model_slug |-> resolved, create_time |-> ctime]

\* a visible user message whose text is the identifier of its node
PlainMessage(id) ==
    Msg(FALSE, "user", "text", <<PStr(<<id>>)>>, <<>>, <<>>, <<>>, None)

Mapping(n, par, ch, msg) ==
    [keys |-> KeySeq(n),
     node |-> [k \in KeySet(n) |->
                 [parent |-> par[k], children |-> ch[k], message |-> msg[k]]]]

Doc(mapping, current_node) ==
    [title |-> <<"T">>, create_time |-> None, update_time |-> None,
     default_model_slug |-> <<>>, conversation_id |-> <<>>,
     mapping |-> mapping, current_node |-> current_node]

\* the children lists an export holds for the parent links par
ChildrenOf(n, par) ==
    [k \in KeySet(n) |-> SelectSeq(KeySeq(n), LAMBDA c : par[c] = k)]

\* Documents with a usable current_node: any parent links (to a key, to no
\* key, empty, absent; with or without a cycle), nodes with and without a
\* message.
WalkDocument(d) ==
    \E n \in 1..Len(NodeIds) :
      \E par \in [KeySet(n) -> {None, Empty, Ghost} \cup KeySet(n)],
         withMsg \in SUBSET KeySet(n),
         cn \in KeySet(n) :
        d = Doc(Mapping(n, par, ChildrenOf(n, par),
                        [k \in KeySet(n) |->
                            IF k \in withMsg THEN <<PlainMessage(k)>>
                            ELSE <<>>]),
                cn)

ChildLists(ks) ==
    {<<>>}
    \cup {<<c>> : c \in ks \cup {Empty, Ghost}}
    \cup {<<p[1], p[2]>> : p \in {q \in ks \X ks : q[1] # q[2]}}

\* Documents without a usable current_node: any children lists of at most
\* two entries, parents absent, empty or set.
FallbackDocument(d) ==
    \E n \in 0..Len(NodeIds) :
      \E par \in [KeySet(n) -> {None, Empty, NodeIds[1]}],
         ch \in [KeySet(n) -> ChildLists(KeySet(n))],
         cn \in {None, Empty, Ghost} :
        d = Doc(Mapping(n, par, ch, [k \in KeySet(n) |-> <<PlainMessage(k)>>]),
                cn)

PartValues ==
    {PStr(<<" ">>), PStr(<<"x">>), PDict(<<"f">>, TRUE), PDict(<<>>, TRUE),
     PDict(<<>>, FALSE), PNone}

PartLists ==
    UNION {[1..n -> PartValues] : n \in 0..MaxParts}

Roles == {"user", "assistant", "tool", "system", ""}

ContentTypes ==
    {"text", "code", "execution_output", "multimodal_text",
     "user_editable_context", "reasoning_recap", ""}

\* every payload of every content type, on a visible user message
ContentMessages ==
    { Msg(FALSE, "user", ct, parts, text, <<>>, <<>>, None) :
        ct \in ContentTypes, parts \in PartLists,
        text \in {<<>>, <<" ">>, <<" ", "x", "\n">>} }

\* every hidden flag, role and content type, with and without text
GateMessages ==
    { Msg(hidden, role, ct, parts, parts[1].v, <<>>, <<>>, None) :
        hidden \in BOOLEAN, role \in Roles, ct \in ContentTypes,
        parts \in {<<PStr(<<>>)>>, <<PStr(<<"x">>)>>} }

\* every role with every combination of slugs and timestamps
SlugMessages ==
    { Msg(FALSE, role, "text", <<PStr(<<"x">>)>>, <<>>, ms, rms, ctime) :
        role \in Roles, ms \in {<<>>, <<"m1">>}, rms \in {<<>>, <<"m2">>},
        ctime \in Timestamps }

\* Documents a -> b with current_node b, one of the two nodes holding any
\* message of the three families and the other a plain one.
MessageDocument(d) ==
    \E m \in ContentMessages \cup GateMessages \cup SlugMessages,
       at \in KeySet(2) :
      d = Doc(Mapping(2, [k \in KeySet(2) |-> IF k = "a" THEN None ELSE "a"],
                      [k \in KeySet(2) |-> IF k = "a" THEN <<"b">> ELSE <<>>],
                      [k \in KeySet(2) |->
                          IF k = at THEN <<m>> ELSE <<PlainMessage(k)>>]),
              "b")

\* Documents whose top-level metadata varies, over a chain of n plain nodes.
MetaDocument(d) ==
    \E n \in 0..1 :
      \E title \in {<<"T">>, <<LoneSurrogate>>},
         ct \in Timestamps, ut \in {None, "1700000000"},
         slug \in {<<>>, <<"gpt">>}, cid \in {<<>>, <<"id1">>} :
        d = [title |-> title, create_time |-> ct, update_time |-> ut,
             default_model_slug |-> slug, conversation_id |-> cid,
             mapping |->
                Mapping(n, [k \in KeySet(n) |-> None],
                        [k \in KeySet(n) |-> <<>>],
                        [k \in KeySet(n) |-> <<PlainMessage(k)>>]),
             current_node |-> None]

EmptyDocument == Doc(Mapping(0, <<>>, <<>>, <<>>), None)

-----------------------------------------------------------------------------
(* One conversion: json_to_markdown on a parsed document.                   *)

ConvInit ==
    /\ pc = "start"
    /\ chain = <<>>
    /\ messages = <<>>
    /\ origin = <<>>
    /\ lines = <<>>

BatchIdle ==
    /\ dir = <<>>
    /\ json_files = <<>>
    /\ idx = 0
    /\ success = 0
    /\ failed = 0
    /\ out = <<>>
    /\ printed = <<>>
    /\ bpc = "idle"

Init ==
    /\ \/ WalkDocument(data)
       \/ FallbackDocument(data)
       \/ MessageDocument(data)
       \/ MetaDocument(data)
    /\ ConvInit
    /\ BatchIdle

\* lines 53-57: no node has parent None, the call returns []
ReturnEmpty ==
    /\ pc = "start"
    /\ SelectPath(data).status = "empty"
    /\ pc' = "built"
    /\ UNCHANGED <<data, chain, messages, origin, lines>>
    /\ UNCHANGED batchVars

\* lines 53-71: the path is selected
PathSelected ==
    /\ pc = "start"
    /\ SelectPath(data).status = "ok"
    /\ chain' = SelectPath(data).chain
    /\ pc' = "selected"
    /\ UNCHANGED <<data, messages, origin, lines>>
    /\ UNCHANGED batchVars

\* lines 62 and 70: mapping[...] raises KeyError
PathRaises ==
    /\ pc = "start"
    /\ SelectPath(data).status = "KeyError"
    /\ chain' = SelectPath(data).chain
    /\ pc' = "raised"
    /\ UNCHANGED <<data, messages, origin, lines>>
    /\ UNCHANGED batchVars

\* lines 60 and 68: the while loop does not end
PathHangs ==
    /\ pc = "start"
    /\ SelectPath(data).status = "hang"
    /\ chain' = SelectPath(data).chain
    /\ pc' = "hung"
    /\ UNCHANGED <<data, messages, origin, lines>>
    /\ UNCHANGED batchVars

\* lines 74-137
FilterMessages ==
    /\ pc = "selected"
    /\ messages' = Recs(FilterChain(data.mapping, chain))
    /\ origin' = Nids(FilterChain(data.mapping, chain))
    /\ pc' = "built"
    /\ UNCHANGED <<data, chain, lines>>
    /\ UNCHANGED batchVars

\* lines 154-199
Render ==
    /\ pc = "built"
    /\ lines' = RenderLines(data, messages)
    /\ pc' = "done"
    /\ UNCHANGED <<data, chain, messages, origin>>
    /\ UNCHANGED batchVars

Next ==
    \/ ReturnEmpty
    \/ PathSelected
    \/ PathRaises
    \/ PathHangs
    \/ FilterMessages
    \/ Render

Spec == Init /\ [][Next]_vars

-----------------------------------------------------------------------------
(* convert_batch.  A file is named by a number (its rank among the file     *)
(* names) and holds [parses, doc]: whether json.load accepts its text, and  *)
(* the document it then yields.                                             *)

\* lines 142-199 as a function of the file
json_to_markdown(file) ==
    IF ~file.parses THEN [status |-> "JSONDecodeError", lines |-> <<>>]
    ELSE LET built == BuildConversationChain(file.doc)
         IN  IF built.status \in {"ok", "empty"}
             THEN [status |-> "ok",
                   lines |-> RenderLines(file.doc, Recs(built.found))]
             ELSE [status |-> built.status, lines |-> <<>>]

\* line 228: sorted(...)
RECURSIVE Sorted(_)
Sorted(S) ==
    IF S = {} THEN <<>>
    ELSE LET least == CHOOSE x \in S : \A y \in S : x <= y
         IN  <<least>> \o Sorted(S \ {least})

\* lines 244-245: whether the utf-8 codec can encode the text written
Encodable(ls) ==
    \A i \in 1..Len(ls) : \A j \in 1..Len(ls[i]) : ls[i][j] # LoneSurrogate

ChainDocument(n, title) ==
    [title |-> title, create_time |-> "1700000000", update_time |-> None,
     default_model_slug |-> <<"gpt">>, conversation_id |-> <<>>,
     mapping |->
        Mapping(n, [k \in KeySet(n) |-> IF k = "a" THEN None ELSE "a"],
                [k \in KeySet(n) |->
                    IF k = "a" /\ n > 1 THEN <<"b">> ELSE <<>>],
                [k \in KeySet(n) |-> <<PlainMessage(k)>>]),
     current_node |-> IF n = 0 THEN None ELSE NodeIds[n]]

SelfParentDocument(par) ==
    Doc(Mapping(1, [k \in KeySet(1) |-> par], [k \in KeySet(1) |-> <<>>],
                [k \in KeySet(1) |-> <<PlainMessage(k)>>]),
        "a")

\* the files of the model: malformed text, a two-message conversation, an
\* empty mapping, a parent that is no key, a node that is its own parent, a
\* title holding a lone surrogate
BatchFiles ==
    {[parses |-> FALSE, doc |-> EmptyDocument],
     [parses |-> TRUE, doc |-> ChainDocument(2, <<"T">>)],
     [parses |-> TRUE, doc |-> ChainDocument(0, <<"T">>)],
     [parses |-> TRUE, doc |-> SelfParentDocument(Ghost)],
     [parses |-> TRUE, doc |-> SelfParentDocument("a")],
     [parses |-> TRUE, doc |-> ChainDocument(1, <<LoneSurrogate>>)]}

ConvIdle ==
    /\ data = EmptyDocument
    /\ pc = "idle"
    /\ chain = <<>>
    /\ messages = <<>>
    /\ origin = <<>>
    /\ lines = <<>>

BatchInit ==
    /\ \E names \in SUBSET (1..MaxFiles) : dir \in [names -> BatchFiles]
    /\ json_files = <<>>
    /\ idx = 0
    /\ success = 0
    /\ failed = 0
    /\ out = [f \in DOMAIN dir |-> "none"]
    /\ printed = <<>>
    /\ bpc = "start"
    /\ ConvIdle

\* lines 228-231: no *.json file, sys.exit(0)
BatchNoFiles ==
    /\ bpc = "start"
    /\ DOMAIN dir = {}
    /\ bpc' = "exit0"
    /\ UNCHANGED <<dir, json_files, idx, success, failed, out, printed>>
    /\ UNCHANGED convVars

\* lines 228-238
BatchBegin ==
    /\ bpc = "start"
    /\ DOMAIN dir # {}
    /\ json_files' = Sorted(DOMAIN dir)
    /\ success' = 0
    /\ failed' = 0
    /\ bpc' = "loop"
    /\ UNCHANGED <<dir, idx, out, printed>>
    /\ UNCHANGED convVars

\* the file of the loop iteration at hand
CurrentFile == json_files[idx + 1]

InLoop == bpc = "loop" /\ idx < Len(json_files)

\* lines 248-250
CountFailure ==
    /\ printed' = Append(printed, [file |-> CurrentFile, ok |-> FALSE])
    /\ failed' = failed + 1
    /\ idx' = idx + 1
    /\ UNCHANGED <<dir, json_files, success, bpc>>
    /\ UNCHANGED convVars

\* lines 243, 248-250: json_to_markdown raises
ConvertRaises ==
    /\ InLoop
    /\ json_to_markdown(dir[CurrentFile]).status \in {"JSONDecodeError", "KeyError"}
    /\ CountFailure
    /\ UNCHANGED out

\* line 243: json_to_markdown does not return
ConvertHangs ==
    /\ InLoop
    /\ json_to_markdown(dir[CurrentFile]).status = "hang"
    /\ bpc' = "hung"
    /\ UNCHANGED <<dir, json_files, idx, success, failed, out, printed>>
    /\ UNCHANGED convVars

\* lines 244, 248-250: open(md_path, "w") raises OSError
OpenFails ==
    /\ InLoop
    /\ json_to_markdown(dir[CurrentFile]).status = "ok"
    /\ CountFailure
    /\ UNCHANGED out

\* lines 244-245, 248-250: open() has created or emptied md_path, f.write
\* raises UnicodeEncodeError for text the codec refuses (an OSError of
\* f.write leaves the same state)
WriteFails ==
    /\ InLoop
    /\ json_to_markdown(dir[CurrentFile]).status = "ok"
    /\ ~Encodable(json_to_markdown(dir[CurrentFile]).lines)
    /\ out' = [out EXCEPT ![CurrentFile] = "truncated"]
    /\ CountFailure

\* lines 244-247
WriteSucceeds ==
    /\ InLoop
    /\ json_to_markdown(dir[CurrentFile]).status = "ok"
    /\ Encodable(json_to_markdown(dir[CurrentFile]).lines)
    /\ out' = [out EXCEPT ![CurrentFile] = "written"]
    /\ printed' = Append(printed, [file |-> CurrentFile, ok |-> TRUE])
    /\ success' = success + 1
    /\ idx' = idx + 1
    /\ UNCHANGED <<dir, json_files, failed, bpc>>
    /\ UNCHANGED convVars

\* line 252
Summary ==
    /\ bpc = "loop"
    /\ idx = Len(json_files)
    /\ bpc' = "summary"
    /\ UNCHANGED <<dir, json_files, idx, success, failed, out, printed>>
    /\ UNCHANGED convVars

BatchNext ==
    \/ BatchNoFiles
    \/ BatchBegin
    \/ ConvertRaises
    \/ ConvertHangs
    \/ OpenFails
    \/ WriteFails
    \/ WriteSucceeds
    \/ Summary

SpecBatch == BatchInit /\ [][BatchNext]_vars

-----------------------------------------------------------------------------
(* Properties of build_conversation_chain and json_to_markdown, checked     *)
(* under Spec.                                                              *)

NodeOf(n) == data.mapping.node[n]

\* path selection has ended normally with a path
Selected == pc \in {"selected", "built", "done"} /\ chain # <<>>

\* build_conversation_chain has returned a path's records
Built == pc \in {"built", "done"} /\ chain # <<>>

\* the nodes reached from n by one or more parent links, within fuel links
RECURSIVE AncestorsOf(_, _)
AncestorsOf(n, fuel) ==
    IF fuel = 0 \/ n \notin Keys(data.mapping) THEN {}
    ELSE {NodeOf(n).parent} \cup AncestorsOf(NodeOf(n).parent, fuel - 1)

StrictAncestor(a, b) == a \in AncestorsOf(b, Len(data.mapping.keys))

\* the chain ends at current_node and each entry is the parent of the next
FollowsParents ==
    /\ chain[Len(chain)] = data.current_node
    /\ \A i \in 2..Len(chain) : NodeOf(chain[i]).parent = chain[i - 1]

\* a record that comes before another comes from a strict ancestor
RecordsRootFirst ==
    \A j, k \in 1..Len(origin) :
        j < k => StrictAncestor(origin[j], origin[k])

PositionOf(n) == CHOOSE i \in 1..Len(chain) : chain[i] = n

\* the records come from nodes of the chain, in the chain's order
RecordsInChainOrder ==
    /\ \A k \in 1..Len(origin) : \E i \in 1..Len(chain) : chain[i] = origin[k]
    /\ \A j, k \in 1..Len(origin) :
          j < k => PositionOf(origin[j]) < PositionOf(origin[k])

HasRoot == \E n \in Keys(data.mapping) : NodeOf(n).parent = None

\* the first key, in iteration order, whose node has no parent
FirstRoot ==
    LET ks == data.mapping.keys
        i == CHOOSE i \in 1..Len(ks) :
                /\ NodeOf(ks[i]).parent = None
                /\ \A j \in 1..(i - 1) : NodeOf(ks[j]).parent # None
    IN  ks[i]

\* the chain starts at the first root and each entry is the first child of
\* the entry before it
LeftmostDescent ==
    /\ chain[1] = FirstRoot
    /\ \A i \in 1..(Len(chain) - 1) :
          /\ NodeOf(chain[i]).children # <<>>
          /\ chain[i + 1] = NodeOf(chain[i]).children[1]

NoRootReturnsEmpty ==
    (UsesFallback(data) /\ ~HasRoot) =>
        /\ pc \in {"start", "built", "done"}
        /\ chain = <<>>
        /\ messages = <<>>

NonBlank(text) == \E i \in 1..Len(text) : text[i] \notin Whitespace

\* the conditions of C3 on the node n
Qualifies(n) ==
    /\ NodeOf(n).message # <<>>
    /\ ~NodeOf(n).message[1].hidden
    /\ NodeOf(n).message[1].role \in {"user", "assistant", "tool"}
    /\ ~(NodeOf(n).message[1].content_type
            \in {"user_editable_context", "reasoning_recap"})
    /\ NonBlank(ExtractText(NodeOf(n).message[1]))

\* C3: a node of the selected path yields a record if and only if it has a
\* message that is not hidden, whose role is user, assistant or tool and
\* whose extracted text is not blank; it then yields exactly one, and no
\* other node yields any.
C3_RecordIffQualifies ==
    Built =>
        /\ Len(messages) = Len(origin)
        /\ origin = SelectSeq(chain, Qualifies)

C3_Witness ==
    /\ pc = "built"
    /\ Len(chain) = 2
    /\ Len(messages) = 1
    /\ \E n \in Keys(data.mapping) :
          /\ NodeOf(n).message # <<>>
          /\ ~NodeOf(n).message[1].hidden
          /\ NodeOf(n).message[1].role = "user"
          /\ NodeOf(n).message[1].content_type = "multimodal_text"
          /\ NodeOf(n).message[1].parts = <<PStr(<<" ">>), PNone>>

\* C4 as stated: build_conversation_chain never raises on a document whose
\* fields may be absent and whose parent or children references may name no
\* key of mapping.
C4_NeverRaises == pc # "raised"

\* C5 as stated: path selection visits no node identifier twice, and the
\* loop ends.
C5_NoNodeVisitedTwice ==
    /\ \A i, j \in 1..Len(chain) : i # j => chain[i] # chain[j]
    /\ pc # "hung"

\* the metadata block of the rendered lines
MetaBlock == lines[2]

\* the last item of the metadata block is the count line for n
EndsWithCount(block, n) ==
    /\ Len(block) >= 2
    /\ block[Len(block) - 1] = CountPrefix
    /\ block[Len(block)] = Digits[n + 1]

\* the lines that open a message section
SectionHeaders == {i \in 1..Len(lines) : lines[i] # <<>> /\ lines[i][1] = "## "}

\* C7: the metadata block always ends with the message-count line, the
\* count is the number of records build_conversation_chain returned (0 for
\* an empty mapping) and the number of message sections rendered.
C7_CountIsRecordCount ==
    pc = "done" =>
        /\ EndsWithCount(MetaBlock, Len(messages))
        /\ Cardinality({j \in 1..Len(MetaBlock) : MetaBlock[j] = CountPrefix}) = 1
        /\ Cardinality(SectionHeaders) = Len(messages)
        /\ (data.mapping.keys = <<>> => EndsWithCount(MetaBlock, 0))

C7_Witness ==
    /\ pc = "done"
    /\ ts_to_str(data.create_time) = <<>>
    /\ ts_to_str(data.update_time) = <<>>
    /\ data.default_model_slug = <<>>
    /\ data.conversation_id = <<>>
    /\ Len(messages) = 2
    /\ Len(chain) = 3

\* the mapping with node n holding no message
WithoutMessage(n) ==
    [data.mapping EXCEPT !.node[n].message = <<>>]

\* C8: a message of content type user_editable_context or reasoning_recap
\* yields no record, and the records are those the path would yield if its
\* node had no message.
C8_SkippedTypesLeaveNoTrace ==
    Built =>
        \A i \in 1..Len(chain) :
            (/\ NodeOf(chain[i]).message # <<>>
             /\ NodeOf(chain[i]).message[1].content_type
                    \in {"user_editable_context", "reasoning_recap"})
            => /\ \A k \in 1..Len(origin) : origin[k] # chain[i]
               /\ messages = Recs(FilterChain(WithoutMessage(chain[i]), chain))

C8_Witness ==
    /\ pc = "built"
    /\ Len(messages) = 1
    /\ \E n \in Keys(data.mapping) :
          /\ NodeOf(n).message # <<>>
          /\ ~NodeOf(n).message[1].hidden
          /\ NodeOf(n).message[1].role = "user"
          /\ NodeOf(n).message[1].content_type = "reasoning_recap"
          /\ NodeOf(n).message[1].parts = <<PStr(<<"x">>)>>

\* where the section of the k-th record starts
SectionStart(k) == 4 + 5 * (k - 1) + 1

\* C9: for n records the lines are the heading, the metadata block, one
\* separator, then n sections in record order with a separator after each
\* but the last: 1 separator when n = 0, n separators when n >= 1.
C9_SectionsAndSeparators ==
    pc = "done" =>
        LET n == Len(messages)
        IN  /\ lines[1] = HeadingLine(data)
            /\ lines[2][1] \in {"- **created**: ", "- **updated**: ",
                                "- **model**: ", "- **conversation**: ",
                                CountPrefix}
            /\ lines[3] = <<>>
            /\ lines[4] = Separator
            /\ Len(lines) = 4 + (IF n = 0 THEN 0 ELSE 5 * n - 1)
            /\ \A k \in 1..n :
                  /\ lines[SectionStart(k)][1] = "## "
                  /\ lines[SectionStart(k)][2] = RoleLabel(messages[k].role)
                  /\ lines[SectionStart(k) + 1] = <<>>
                  /\ lines[SectionStart(k) + 2] = messages[k].text
                  /\ lines[SectionStart(k) + 3] = <<>>
                  /\ k < n => lines[SectionStart(k) + 4] = Separator
            /\ Cardinality({i \in 1..Len(lines) : lines[i] = Separator})
                   = (IF n = 0 THEN 1 ELSE n)

C9_Witness ==
    /\ pc = "done"
    /\ Len(messages) = 3

\* the model identifier is part of the line
Carries(line, model) ==
    \E j \in 1..Len(line) : <<line[j]>> = model

\* C10: a record's model is model_slug when that is non-empty, otherwise
\* resolved_model_slug; the section header carries the model if and only if
\* the record's role is assistant and its model is present.
C10_ModelOnlyOnAssistant ==
    /\ Built =>
          \A k \in 1..Len(messages) :
              LET m == NodeOf(origin[k]).message[1]
              IN  messages[k].model =
                      (IF m.model_slug # <<>> THEN m.model_slug
                       ELSE m.resolved_model_slug)
    /\ (pc = "done" /\ chain # <<>>) =>
          \A k \in 1..Len(messages) :
              LET m == NodeOf(origin[k]).message[1]
              IN  /\ Carries(lines[SectionStart(k)], messages[k].model)
                     <=> (messages[k].role = "assistant"
                          /\ messages[k].model # <<>>)
                  /\ \A slug \in {m.model_slug, m.resolved_model_slug} :
                        Carries(lines[SectionStart(k)], slug)
                            => slug = messages[k].model

C10_Witness ==
    /\ pc = "done"
    /\ \E k \in 1..Len(messages) :
          /\ messages[k].role = "assistant"
          /\ messages[k].model = <<"m2">>
          /\ Carries(lines[SectionStart(k)], <<"m2">>)
          /\ ts_to_str(messages[k].create_time) # <<>>

-----------------------------------------------------------------------------
(* The property of convert_batch, checked under SpecBatch.                  *)

\* the files whose result line says success
CountedAsSuccess == {printed[i].file : i \in {j \in 1..Len(printed) : printed[j].ok}}

\* C6 as stated: a failing file never stops the loop, every file is tried
\* once in sorted order, each try counts as one success or one failure, an
\* output file is written only for a file counted as success, and at the
\* summary success + failed is the number of input files.
C6_FailuresAreIsolated ==
    /\ bpc # "hung"
    /\ success + failed = Len(printed)
    /\ \A i \in 1..Len(printed) : printed[i].file = json_files[i]
    /\ \A f \in DOMAIN out : out[f] # "none" => f \in CountedAsSuccess
    /\ bpc = "summary" => success + failed = Cardinality(DOMAIN dir)

====
